---- MODULE Spec2Model ----
(***************************************************************************)
(* CVibes: the analyze-cvs batch pipeline (validation, text extraction,    *)
(* LLM completion with retry on 429, response sanitization, persistence)   *)
(* of server.js and its sibling variants.                                  *)
(*                                                                         *)
(* Strings are sequences of characters; a character is a one-character     *)
(* TLA+ string, except "LF" (U+000A) and "DEL" (U+007F).  String indices   *)
(* are zero-based, as in JavaScript.                                       *)
(***************************************************************************)
EXTENDS Integers, Sequences, FiniteSets, TLC

\* ------------------------------------------------------------ bounds

\* Most documents in one analyze-cvs request.
MaxDocs == 2
\* Most 429 answers the LLM endpoint gives during one batch request.
MaxRateLimited == 1
\* Most categories in a grouped Skills mapping of a generated LLM answer.
MaxCategories == 2
MaxCallers == 3
MaxCalls == 2

\* ------------------------------------------------- program constants

\* getAIResponse(text, retries = 4, delay = 1000) of server.js.
ServerRetries == 4
ServerDelay == 1000
\* getAIResponse(text, retries = 5, delay = 2000) of the persisting variant.
PersistRetries == 5
PersistDelay == 2000
\* delay + Math.random() * 1000
JitterRange == 1000

\* ------------------------------------------------------- the variants

\* The deployments of the server: server.js, the persisting variant, the
\* netlify function, and the two handlers that process a document in the
\* callback of documents.map and decode the answer there ("inline",
\* "inlineFence").
Variants == {"server", "persist", "netlify", "inline", "inlineFence"}

\* The variants of cleanAIResponse: that of server.js, that of the persisting
\* variant, and that of the persisting variant's older copy, which does not
\* strip control characters.
SanitizerVariants == {"server", "persist", "persistPlain"}

\* The handlers that decode the LLM's answer in line, without
\* cleanAIResponse: "inline" is JSON.parse on the answer as it came,
\* "inlineFence" removes a leading and a trailing code-fence marker first.
InlineVariants == {"inline", "inlineFence"}

CleaningVariants == SanitizerVariants \cup InlineVariants

\* The variants whose LLM request goes through getAIResponse (retry on 429).
HasRetry(v) == v \in {"server", "persist"}

\* The variants that connect to MongoDB and insert every successful result.
Persists(v) == v = "persist"

\* cleanContent.replace(/[\u0000-\u001F\u007F-\u009F]/g, '') is present.
StripsControl(v) == v = "persist"

\* normalizeSkills(parsedContent) is called after JSON.parse.
NormalizesSkills(v) == v \in {"persist", "persistPlain"}

\* ---------------------------------------------------------- strings

Min(a, b) == IF a < b THEN a ELSE b
Max(a, b) == IF a < b THEN b ELSE a

\* JavaScript's white space, as far as String.prototype.trim and JSON see it.
IsWhitespace(c) == c \in {" ", "LF"}

\* /[\u0000-\u001F\u007F-\u009F]/
IsControl(c) == c \in {"LF", "DEL"}

RECURSIVE TrimStart(_)
TrimStart(s) ==
    IF s # <<>> /\ IsWhitespace(Head(s)) THEN TrimStart(Tail(s)) ELSE s

RECURSIVE TrimEnd(_)
TrimEnd(s) ==
    IF s # <<>> /\ IsWhitespace(s[Len(s)])
    THEN TrimEnd(SubSeq(s, 1, Len(s) - 1))
    ELSE s

\* String.prototype.trim
Trim(s) == TrimEnd(TrimStart(s))

\* String.prototype.indexOf(c): the zero-based index of the first c, or -1.
IndexOf(s, c) ==
    IF \E i \in 1..Len(s) : s[i] = c
    THEN (CHOOSE i \in 1..Len(s) :
              s[i] = c /\ \A j \in 1..(i - 1) : s[j] # c) - 1
    ELSE -1

\* String.prototype.lastIndexOf(c): the zero-based index of the last c, or -1.
LastIndexOf(s, c) ==
    IF \E i \in 1..Len(s) : s[i] = c
    THEN (CHOOSE i \in 1..Len(s) :
              s[i] = c /\ \A j \in (i + 1)..Len(s) : s[j] # c) - 1
    ELSE -1

\* String.prototype.substring(start, end): both clamped to 0..length and
\* swapped when start > end; the characters at zero-based start..end-1.
Substring(s, start, end) ==
    LET a  == Max(0, Min(start, Len(s)))
        b  == Max(0, Min(end, Len(s)))
        lo == Min(a, b)
        hi == Max(a, b)
    IN  SubSeq(s, lo + 1, hi)

\* String.prototype.replace(/[\u0000-\u001F\u007F-\u009F]/g, '')
StripControl(s) == SelectSeq(s, LAMBDA c : ~IsControl(c))

\* -------------------------------------------------------- JSON values

\* A JavaScript value: t is its kind, s the characters of a string or a
\* number, v the own properties [k, v] of an object in property order, or the
\* elements of an array (each under the empty key).
Undefined == [t |-> "undefined", s |-> <<>>, v |-> <<>>]
JNull == [t |-> "null", s |-> <<>>, v |-> <<>>]
JNum(digits) == [t |-> "num", s |-> digits, v |-> <<>>]
JStr(chars) == [t |-> "str", s |-> chars, v |-> <<>>]
JArr(elements) ==
    [t |-> "arr", s |-> <<>>,
     v |-> [i \in 1..Len(elements) |-> [k |-> <<>>, v |-> elements[i]]]]
JObj(members) == [t |-> "obj", s |-> <<>>, v |-> members]

Digits == {"1", "2"}

DigitValue(c) == IF c = "1" THEN 1 ELSE 2

\* An integer-like property key ("1", "12"): such keys come first, in
\* ascending numeric order, in an object's property order.
IsArrayIndex(k) == k # <<>> /\ \A i \in 1..Len(k) : k[i] \in Digits

RECURSIVE NumericValue(_)
NumericValue(k) ==
    IF k = <<>> THEN 0
    ELSE 10 * NumericValue(SubSeq(k, 1, Len(k) - 1)) + DigitValue(k[Len(k)])

HasProp(members, k) == \E i \in 1..Len(members) : members[i].k = k

PropIndex(members, k) == CHOOSE i \in 1..Len(members) : members[i].k = k

\* obj[k]: the property's value, or undefined.
GetProp(members, k) ==
    IF HasProp(members, k) THEN members[PropIndex(members, k)].v ELSE Undefined

\* The number of integer-like keys of members that order before k.
IndexKeysBefore(members, k) ==
    Cardinality({i \in 1..Len(members) :
        /\ IsArrayIndex(members[i].k)
        /\ (IsArrayIndex(k) => NumericValue(members[i].k) < NumericValue(k))})

\* obj[k] = v: an existing property keeps its place; a new integer-like key
\* is placed among the integer-like keys, any other new key goes last.
SetProp(members, k, v) ==
    IF HasProp(members, k)
    THEN [members EXCEPT ![PropIndex(members, k)].v = v]
    ELSE IF IsArrayIndex(k)
    THEN LET n == IndexKeysBefore(members, k)
         IN  SubSeq(members, 1, n) \o <<[k |-> k, v |-> v]>>
                 \o SubSeq(members, n + 1, Len(members))
    ELSE Append(members, [k |-> k, v |-> v])

\* ------------------------------------------------------- JSON.parse

\* What a parsing step yields: the value and the (one-based) position after it.
ParseFail == [ok |-> FALSE, v |-> Undefined, i |-> 0]
ParseOk(value, next) == [ok |-> TRUE, v |-> value, i |-> next]

CharAt(s, i) == IF i \in 1..Len(s) THEN s[i] ELSE "EOF"

RECURSIVE SkipWhitespace(_, _)
SkipWhitespace(s, i) ==
    IF IsWhitespace(CharAt(s, i)) THEN SkipWhitespace(s, i + 1) ELSE i

\* The position of the quote that closes the string opened before i, or 0:
\* U+0000..U+001F may not appear in a JSON string, U+007F..U+009F may.
RECURSIVE StringEnd(_, _)
StringEnd(s, i) ==
    LET c == CharAt(s, i)
    IN  IF c = "\"" THEN i
        ELSE IF c \in {"EOF", "LF"} THEN 0
        ELSE StringEnd(s, i + 1)

ParseString(s, i) ==
    LET j == StringEnd(s, i + 1)
    IN  IF j = 0 THEN ParseFail
        ELSE ParseOk(JStr(SubSeq(s, i + 1, j - 1)), j + 1)

RECURSIVE NumberEnd(_, _)
NumberEnd(s, i) == IF CharAt(s, i) \in Digits THEN NumberEnd(s, i + 1) ELSE i

ParseNumber(s, i) ==
    LET j == NumberEnd(s, i)
    IN  ParseOk(JNum(SubSeq(s, i, j - 1)), j)

ParseNull(s, i) ==
    IF SubSeq(s, i, Min(i + 3, Len(s))) = <<"n", "u", "l", "l">>
    THEN ParseOk(JNull, i + 4)
    ELSE ParseFail

RECURSIVE ParseValue(_, _)
RECURSIVE ParseElements(_, _, _)
RECURSIVE ParseMembers(_, _, _)

\* value, ("," value)*, "]"
ParseElements(s, i, acc) ==
    LET r == ParseValue(s, i)
        j == SkipWhitespace(s, r.i)
    IN  IF ~r.ok THEN ParseFail
        ELSE IF CharAt(s, j) = "," THEN ParseElements(s, j + 1, Append(acc, r.v))
        ELSE IF CharAt(s, j) = "]" THEN ParseOk(JArr(Append(acc, r.v)), j + 1)
        ELSE ParseFail

\* string, ":", value, ("," string ":" value)*, "}"
ParseMembers(s, i, acc) ==
    LET i0 == SkipWhitespace(s, i)
        key == ParseString(s, i0)
        colon == SkipWhitespace(s, key.i)
        r == ParseValue(s, colon + 1)
        j == SkipWhitespace(s, r.i)
    IN  IF CharAt(s, i0) # "\"" \/ ~key.ok THEN ParseFail
        ELSE IF CharAt(s, colon) # ":" THEN ParseFail
        ELSE IF ~r.ok THEN ParseFail
        ELSE IF CharAt(s, j) = ","
        THEN ParseMembers(s, j + 1, SetProp(acc, key.v.s, r.v))
        ELSE IF CharAt(s, j) = "}"
        THEN ParseOk(JObj(SetProp(acc, key.v.s, r.v)), j + 1)
        ELSE ParseFail

ParseValue(s, i) ==
    LET i0 == SkipWhitespace(s, i)
        c == CharAt(s, i0)
        i1 == SkipWhitespace(s, i0 + 1)
    IN  IF c = "{"
        THEN IF CharAt(s, i1) = "}" THEN ParseOk(JObj(<<>>), i1 + 1)
             ELSE ParseMembers(s, i0 + 1, <<>>)
        ELSE IF c = "["
        THEN IF CharAt(s, i1) = "]" THEN ParseOk(JArr(<<>>), i1 + 1)
             ELSE ParseElements(s, i0 + 1, <<>>)
        ELSE IF c = "\"" THEN ParseString(s, i0)
        ELSE IF c \in Digits THEN ParseNumber(s, i0)
        ELSE IF c = "n" THEN ParseNull(s, i0)
        ELSE ParseFail

\* JSON.parse(s): ok is FALSE where JSON.parse throws a SyntaxError.
JSONParse(s) ==
    LET r == ParseValue(s, 1)
    IN  IF r.ok /\ SkipWhitespace(s, r.i) = Len(s) + 1
        THEN [ok |-> TRUE, v |-> r.v]
        ELSE [ok |-> FALSE, v |-> Undefined]

\* --------------------------------------------------- the sanitizer

Skills == <<"S", "k", "i", "l", "l", "s">>
Name == <<"N", "a", "m", "e">>

ContactInformation == <<"C", "o", "n", "t", "a", "c", "t", "I", "n", "f", "o", "r", "m", "a", "t", "i", "o", "n">>
Summary == <<"S", "u", "m", "m", "a", "r", "y">>
Education == <<"E", "d", "u", "c", "a", "t", "i", "o", "n">>
WorkExperience == <<"W", "o", "r", "k", "E", "x", "p", "e", "r", "i", "e", "n", "c", "e">>
Certifications == <<"C", "e", "r", "t", "i", "f", "i", "c", "a", "t", "i", "o", "n", "s">>
Languages == <<"L", "a", "n", "g", "u", "a", "g", "e", "s">>
Projects == <<"P", "r", "o", "j", "e", "c", "t", "s">>
Achievements == <<"A", "c", "h", "i", "e", "v", "e", "m", "e", "n", "t", "s">>
OtherDetails == <<"O", "t", "h", "e", "r", "D", "e", "t", "a", "i", "l", "s">>

\* The keys the system prompt asks for.
TopLevelKeys ==
    <<Name, ContactInformation, Summary, Education, WorkExperience, Skills,
      Certifications, Languages, Projects, Achievements, OtherDetails>>

RECURSIVE Flatten(_)
Flatten(seqs) == IF seqs = <<>> THEN <<>> ELSE Head(seqs) \o Flatten(Tail(seqs))

\* The for...in loop of normalizeSkills over the categories of a grouped
\* Skills object: the elements of every category that holds an array are
\* pushed, in property order; any other category is passed over.
NormalizedSkills(categories) ==
    LET pushed == Flatten([i \in 1..Len(categories) |->
            IF categories[i].v.t = "arr" THEN categories[i].v.v ELSE <<>>])
    IN  [t |-> "arr", s |-> <<>>, v |-> pushed]

\* parsedContent.Skills throws a TypeError when parsedContent is null.
NormalizeSkillsThrows(parsedContent) == parsedContent.t = "null"

normalizeSkillsKeepsSkillsOnly(parsedContent) ==
    IF parsedContent.t = "obj" /\ GetProp(parsedContent.v, Skills).t = "obj"
    THEN JObj(<<[k |-> Skills,
                 v |-> NormalizedSkills(GetProp(parsedContent.v, Skills).v)]>>)
    ELSE parsedContent

\* normalizeSkills(parsedContent), on a parsedContent it does not throw on:
\* a truthy, non-array object under Skills is replaced by the flat array.
normalizeSkills(parsedContent) ==
    IF parsedContent.t = "obj" /\ GetProp(parsedContent.v, Skills).t = "obj"
    THEN JObj(SetProp(parsedContent.v, Skills,
                      NormalizedSkills(GetProp(parsedContent.v, Skills).v)))
    ELSE parsedContent

FindMessage == "Failed to find JSON in AI response: "
ParseMessage == "Failed to parse AI response: "

\* What cleanAIResponse does: return value (ok), or throw an Error whose
\* message is `message` followed by `content`.
Returned(value) ==
    [ok |-> TRUE, value |-> value, message |-> "", content |-> <<>>]
Thrown(message, content) ==
    [ok |-> FALSE, value |-> Undefined, message |-> message, content |-> content]

\* The message of the Error thrown from the catch around JSON.parse; only
\* the persisting variant puts the caught error in front.
ParseMessageOf(v, caught) ==
    IF StripsControl(v) THEN caught \o " + " \o ParseMessage ELSE ParseMessage

\* The argument of JSON.parse: the slice, after the replace of the control
\* characters where the variant has one.
ParserArgument(v, sliced) == IF StripsControl(v) THEN StripControl(sliced) ELSE sliced

\* Lines 135-139 of server.js; lines 171-180 of the persisting variant.
ParseCleanContent(v, sliced) ==
    LET cleanContent == ParserArgument(v, sliced)
        parsed == JSONParse(cleanContent)
    IN  IF ~parsed.ok
        THEN Thrown(ParseMessageOf(v, "SyntaxError"), cleanContent)
        ELSE IF ~NormalizesSkills(v) THEN Returned(parsed.v)
        ELSE IF NormalizeSkillsThrows(parsed.v)
        THEN Thrown(ParseMessageOf(v, "TypeError"), cleanContent)
        ELSE Returned(normalizeSkills(parsed.v))

JsonStartLast(cleanContent) == LastIndexOf(cleanContent, "{")

\* const jsonStart = cleanContent.indexOf('{')
JsonStart(cleanContent) == IndexOf(cleanContent, "{")

\* const jsonEnd = cleanContent.lastIndexOf('}') + 1
JsonEnd(cleanContent) == LastIndexOf(cleanContent, "}") + 1

\* cleanAIResponse(responseContent) of variant v.
cleanAIResponse(v, responseContent) ==
    LET cleanContent == Trim(responseContent)
        jsonStart == JsonStart(cleanContent)
        jsonEnd == JsonEnd(cleanContent)
    IN  IF jsonStart # -1 /\ jsonEnd # -1
        THEN ParseCleanContent(v, Substring(cleanContent, jsonStart, jsonEnd))
        ELSE Thrown(FindMessage, cleanContent)

InlineParseMessage == "Failed to parse AI response"

FenceStart == <<"TICK", "TICK", "TICK", "j", "s", "o", "n">>
FenceStop == <<"TICK", "TICK", "TICK">>

\* String.prototype.startsWith
StartsWith(s, prefix) ==
    Len(s) >= Len(prefix) /\ SubSeq(s, 1, Len(prefix)) = prefix

\* String.prototype.endsWith
EndsWith(s, suffix) ==
    Len(s) >= Len(suffix) /\ SubSeq(s, Len(s) - Len(suffix) + 1, Len(s)) = suffix

\* cleanContent.replace(/```json\n?/, '') on a string that starts with the
\* marker: the first match is the one at the start.
RemoveFenceStart(s) ==
    LET n == IF Len(s) > Len(FenceStart) /\ s[Len(FenceStart) + 1] = "LF"
             THEN Len(FenceStart) + 1 ELSE Len(FenceStart)
    IN  SubSeq(s, n + 1, Len(s))

\* .replace(/```$/, ''): without the m flag, $ is the end of the string.
RemoveFenceStop(s) ==
    IF EndsWith(s, FenceStop) THEN SubSeq(s, 1, Len(s) - Len(FenceStop)) ELSE s

\* The fence removal of the "inlineFence" handler.
StripFence(aiContent) ==
    LET cleanContent == Trim(aiContent)
    IN  IF StartsWith(cleanContent, FenceStart)
        THEN RemoveFenceStop(RemoveFenceStart(cleanContent))
        ELSE cleanContent

\* The parse block of the handlers without cleanAIResponse: the record
\* JSON.parse gives, or an error result whose rawContent is the answer.
parseBlock(v, aiContent) ==
    LET cleanContent == IF v = "inlineFence" THEN StripFence(aiContent) ELSE aiContent
        parsedResult == JSONParse(cleanContent)
    IN  IF parsedResult.ok THEN Returned(parsedResult.v)
        ELSE Thrown(InlineParseMessage, aiContent)

\* ----------------------------------------------- the LLM's answers

Quoted(chars) == <<"\"">> \o chars \o <<"\"">>

RECURSIVE Stringify(_)
RECURSIVE StringifyList(_, _)
\* The elements (or members, when keyed) of a list, separated by commas.
StringifyList(items, keyed) ==
    IF items = <<>> THEN <<>>
    ELSE (IF keyed
          THEN Quoted(Head(items).k) \o <<":">> \o Stringify(Head(items).v)
          ELSE Stringify(Head(items).v))
         \o (IF Len(items) > 1 THEN <<",">> ELSE <<>>)
         \o StringifyList(Tail(items), keyed)

\* The JSON text of a value, members in the order given.
Stringify(value) ==
    IF value.t = "null" THEN <<"n", "u", "l", "l">>
    ELSE IF value.t = "num" THEN value.s
    ELSE IF value.t = "str" THEN Quoted(value.s)
    ELSE IF value.t = "arr" THEN <<"[">> \o StringifyList(value.v, FALSE) \o <<"]">>
    ELSE <<"{">> \o StringifyList(value.v, TRUE) \o <<"}">>

Fence == <<"TICK", "TICK", "TICK", "j", "s", "o", "n", "LF">>
FenceEnd == <<"LF", "TICK", "TICK", "TICK">>
Sure == <<"S", "u", "r", "e", " ">>

Member(key, value) == [k |-> key, v |-> value]

\* What the model may put before and after the body of its answer.
Prefixes == {<<>>, Sure, Fence, <<"LF">>, <<"1">>, <<"{">>}
Suffixes == {<<>>, FenceEnd, <<" ">>, <<"}">>}

CategoryNames == {<<"t">>, <<"1">>, <<"2">>}
CategoryValues ==
    {JArr(<<JStr(<<"G", "o">>)>>), JArr(<<JStr(<<"C">>), JStr(<<"G", "o">>)>>),
     JStr(<<"x">>)}

\* Skills grouped by category: up to MaxCategories members, in any order,
\* a category name possibly repeated.
Groupings ==
    UNION {[1..n -> {Member(k, x) : k \in CategoryNames, x \in CategoryValues}] :
               n \in 0..MaxCategories}

SkillsValues ==
    {JObj(g) : g \in Groupings}
        \cup {JNull, JStr(<<"x">>), JArr(<<>>), JArr(<<JStr(<<"G", "o">>)>>)}

\* The records the model may answer with: a Name (or none), a Skills (or none).
AnswerRecords ==
    {JObj(n \o <<Member(Skills, x)>>) :
         n \in {<<>>, <<Member(Name, JStr(<<"A", "DEL", "b">>))>>}, x \in SkillsValues}
        \cup {JObj(<<>>), JObj(<<Member(Name, JStr(<<"A">>))>>)}

\* Bodies that are no JSON object text.
OtherBodies ==
    {<<>>, <<"{">>, <<"}">>, <<"}", "{">>, <<"1">>, <<"n", "u", "l", "l">>,
     <<"[", "1", "]">>, <<"S", "o", "r", "r", "y">>,
     <<"{", "\"", "N", "a", "m", "e", "\"", ":">>,
     <<"{", "LF", " ", "\"", "N", "a", "m", "e", "\"", " ", ":", "\"", "A", "\"",
       "LF", "}">>}

Bodies == {Stringify(r) : r \in AnswerRecords} \cup OtherBodies

\* The answers the LLM endpoint gives in the pipeline: a fenced record with
\* grouped skills, prose without JSON, a truncated object.
GoodContent ==
    Fence \o Stringify(JObj(<<Member(Name, JStr(<<"A">>)),
                  Member(Skills, JObj(<<Member(<<"t">>, JArr(<<JStr(<<"G", "o">>)>>))>>))>>))
          \o FenceEnd
\* A record as the prompt asks for it: every key, absent details empty.
FullContent ==
    Stringify(JObj([i \in 1..Len(TopLevelKeys) |->
        Member(TopLevelKeys[i],
               IF TopLevelKeys[i] = Name THEN JStr(<<"A">>)
               ELSE IF TopLevelKeys[i] \in {ContactInformation, Summary, OtherDetails}
               THEN JStr(<<>>) ELSE JArr(<<>>))]))
ProseContent == <<"S", "o", "r", "r", "y">>
TruncatedContent == <<"{", "\"", "N", "a", "m", "e", "\"", ":">>
Contents == {GoodContent, FullContent, ProseContent, TruncatedContent}

\* ------------------------------------------------------ the pipeline

VARIABLES
    variant,        \* which deployment runs
    documents,      \* req.body.documents: [kind, items]
    handler,        \* where the route handler is
    db,             \* the module-level db of connectToDatabase is set
    connectCalls,   \* how often client.connect() was called
    rateLimitsLeft, \* how many more 429 answers the endpoint will give
    proc,           \* per document: the state of its processDocument call
    settledOrder,   \* the documents in the order their promises settled
    inserted,       \* the records inserted into the responses collection
    response,       \* the response sent, if any
    responsesSent,  \* how many responses were sent
    raw,            \* an LLM answer handed to cleanAIResponse: <<prefix, body, suffix>>
    cleaned,        \* what cleanAIResponse did with it
    callers         \* per call of connectToDatabase at large: where it is

vars == <<variant, documents, handler, db, connectCalls, rateLimitsLeft, proc,
          settledOrder, inserted, response, responsesSent, raw, cleaned, callers>>

pipelineVars == <<variant, documents, handler, db, connectCalls, rateLimitsLeft,
                  proc, settledOrder, inserted, response, responsesSent>>

\* String.prototype.toLowerCase, on the file types that occur.
ToLowerCase(fileType) ==
    IF fileType = "PDF" THEN "pdf"
    ELSE IF fileType = "JPG" THEN "jpg"
    ELSE fileType

ExtractorForDefaultsToOCR(lowered) ==
    IF lowered = "pdf" THEN "pdfParse"
    ELSE IF lowered = "docx" THEN "mammoth"
    ELSE "Tesseract"

\* The switch of extractText: the extraction service a file type goes to.
ExtractorFor(lowered) ==
    IF lowered = "pdf" THEN "pdfParse"
    ELSE IF lowered = "docx" THEN "mammoth"
    ELSE IF lowered \in {"png", "jpg", "jpeg"} THEN "Tesseract"
    ELSE "none"

\* The library a case of the switch calls first: the handler with the fence
\* removal has its own extractTextFromPDF (pdf-lib) and extractTextFromDocx
\* (docx4js).
ExtractorOf(v, lowered) ==
    IF v = "inlineFence" /\ ExtractorFor(lowered) = "pdfParse" THEN "pdf-lib"
    ELSE IF v = "inlineFence" /\ ExtractorFor(lowered) = "mammoth" THEN "docx4js"
    ELSE ExtractorFor(lowered)

HasFallbackNever(v, extractor) == FALSE

\* The catch of that extractTextFromPDF hands the buffer to pdf-text-extract.
HasFallback(v, extractor) == v = "inlineFence" /\ extractor = "pdf-lib"

SwallowsAll(v, extractor) == v \in {"server", "persist"}

SwallowsOCR(v, extractor) ==
    v \in {"server", "persist"} /\ extractor \in {"pdfParse", "mammoth", "Tesseract"}

\* extractTextFromPDF and extractTextFromDocx of server.js and of the
\* persisting variant catch the service's error and return ''; the netlify
\* function awaits the services inside processPromises' own try.
Swallows(v, extractor) ==
    \/ v \in {"server", "persist"} /\ extractor \in {"pdfParse", "mammoth"}
    \/ v = "inlineFence" /\ extractor = "docx4js"

\* A thrown Error: its message is `message` followed by `content`; response
\* is the status of error.response, "none" when there is no response.
Error(message, content, status) ==
    [message |-> message, content |-> content, response |-> status]

MissingMessage == "Missing base64 or fileType"
UnsupportedMessage == "Unsupported file type"

NoResult ==
    [index |-> -1, status |-> "none", error |-> "", errorContent |-> <<>>,
     result |-> Undefined, hasRawContent |-> FALSE, rawContent |-> <<>>]

SuccessResult(index, result) ==
    [index |-> index, status |-> "success", error |-> "", errorContent |-> <<>>,
     result |-> result, hasRawContent |-> FALSE, rawContent |-> <<>>]

ErrorResult(index, message, content) ==
    [index |-> index, status |-> "error", error |-> message,
     errorContent |-> content, result |-> Undefined,
     hasRawContent |-> FALSE, rawContent |-> <<>>]

\* return { index, status: 'error', error: 'Failed to parse AI response',
\*          rawContent: aiContent } of the parse blocks.
RawContentResult(index, message, aiContent) ==
    [index |-> index, status |-> "error", error |-> message,
     errorContent |-> <<>>, result |-> Undefined,
     hasRawContent |-> TRUE, rawContent |-> aiContent]

\* The state of one processDocument call before it starts.
Pending ==
    [pc |-> "pending", text |-> "", retries |-> 0, delay |-> 0,
     decoded |-> FALSE, extractor |-> "none", extraction |-> "none",
     attempts |-> <<>>, thrown |-> <<>>,
     requests |-> 0, waits |-> <<>>, rateLimited |-> 0, lastAnswer |-> "none",
     content |-> <<>>, insertion |-> "none", out |-> NoResult]

\* processDocument returns (its promise is fulfilled with) a result.
Fulfilled(p, result) == [p EXCEPT !.pc = "fulfilled", !.out = result]

processDocumentRethrows(p, index, error) == [p EXCEPT !.pc = "rejected"]

processDocumentCatchNeverReturns(p, index, error) == [p EXCEPT !.pc = "hung"]

\* The catch block of processDocument:
\* return { index, status: 'error', error: error.message }.
processDocumentCatch(p, index, error) ==
    Fulfilled(p, ErrorResult(index, error.message, error.content))

\* The default arguments of getAIResponse (the netlify function has none).
Retries(v) ==
    IF v = "server" THEN ServerRetries ELSE IF v = "persist" THEN PersistRetries ELSE 0
Delay(v) ==
    IF v = "server" THEN ServerDelay ELSE IF v = "persist" THEN PersistDelay ELSE 0

\* Math.random() * 1000 is in [0, 1000); the persisting variant alone adds it.
Jitters(v) == IF v = "persist" THEN {0, JitterRange - 1} ELSE {0}

\* await axios.post(...): the request is on its way.
SendRequest(p, text, retries, delay) ==
    [p EXCEPT !.pc = "requesting", !.text = text, !.retries = retries,
              !.delay = delay, !.requests = @ + 1]

MissingFieldBase64Only(doc) == doc.base64 = ""

\* !doc.base64 || !doc.fileType
MissingField(doc) == doc.base64 = "" \/ doc.fileType = ""

\* The handlers whose per-document function is the callback of documents.map
\* (no processDocument, no extractText): an unsupported type is a return.
InlineHandler(v) == v \in {"netlify", "inline", "inlineFence"}

\* const buffer = Buffer.from(doc.base64, 'base64') has run.
Decoded == [Pending EXCEPT !.decoded = TRUE]

\* An extraction library is called.
Invoke(p, extractor) ==
    [p EXCEPT !.extractor = extractor, !.attempts = Append(@, extractor)]

\* processDocument up to its first await (documents.map starts every call).
StartDocument(v, doc, index) ==
    IF doc.isNull
    THEN processDocumentCatch(Pending, index,
             Error("Cannot read properties of null", <<>>, "none"))
    ELSE IF MissingField(doc)
    THEN Fulfilled(Pending, ErrorResult(index, MissingMessage, <<>>))
    ELSE IF ExtractorOf(v, ToLowerCase(doc.fileType)) = "none"
    THEN IF InlineHandler(v)
         THEN Fulfilled(Decoded, ErrorResult(index, UnsupportedMessage, <<>>))
         ELSE processDocumentCatch(Decoded, index,
                  Error(UnsupportedMessage, <<>>, "none"))
    ELSE Invoke([Decoded EXCEPT !.pc = "extracting"],
                ExtractorOf(v, ToLowerCase(doc.fileType)))

ShouldRetryInclusive(v, error, retries) ==
    HasRetry(v) /\ error.response = "429" /\ retries >= 0

ShouldRetryAnyError(v, error, retries) == HasRetry(v) /\ retries > 0

ShouldRetryAnyResponse(v, error, retries) ==
    HasRetry(v) /\ error.response # "none" /\ retries > 0

\* The condition under which the catch block of getAIResponse retries:
\* error.response && error.response.status === 429 && retries > 0.
ShouldRetry(v, error, retries) ==
    HasRetry(v) /\ error.response = "429" /\ retries > 0

\* setTimeout(resolve, delay) / setTimeout(resolve, delay + Math.random() * 1000)
BackoffDelay(delay, jitter) == delay + jitter

NextDelaySame(delay) == delay

NextDelayLinear(delay) == delay + 1000

\* getAIResponse(text, retries - 1, delay * 2): the next invocation's delay.
NextDelay(delay) == delay * 2

getAIResponseCatchWithoutWait(v, p, index, error, jitter) ==
    IF ShouldRetry(v, error, p.retries)
    THEN SendRequest(p, p.text, p.retries - 1, NextDelay(p.delay))
    ELSE processDocumentCatch(p, index, error)

\* An error reaches the catch block of getAIResponse (or, in the netlify
\* function, of processPromises): back off and retry, or rethrow to
\* processDocument's catch.
getAIResponseCatch(v, p, index, error, jitter) ==
    IF ShouldRetry(v, error, p.retries)
    THEN [p EXCEPT !.pc = "backoff",
                   !.waits = Append(@, BackoffDelay(p.delay, jitter))]
    ELSE processDocumentCatch(p, index, error)

\* The request is answered 200 with `content`.
OnCompletion(v, p, index, content) ==
    LET q == [p EXCEPT !.lastAnswer = "200", !.content = content]
        c == cleanAIResponse(v, content)
    IN  IF v = "netlify" THEN Fulfilled(q, SuccessResult(index, JStr(content)))
        ELSE IF v \in InlineVariants
        THEN IF parseBlock(v, content).ok
             THEN Fulfilled(q, SuccessResult(index, parseBlock(v, content).value))
             ELSE Fulfilled(q, RawContentResult(index, InlineParseMessage, content))
        ELSE IF ~c.ok
        THEN getAIResponseCatch(v, q, index, Error(c.message, c.content, "none"), 0)
        ELSE IF Persists(v) THEN [q EXCEPT !.pc = "inserting"]
        ELSE Fulfilled(q, SuccessResult(index, c.value))

StatusMessage(status) ==
    IF status = "network" THEN "Network Error"
    ELSE IF status = "429" THEN "Request failed with status code 429"
    ELSE "Request failed with status code 500"

\* axios rejects: `status` is the response's status, "network" without one.
AxiosError(status) ==
    Error(StatusMessage(status), <<>>, IF status = "network" THEN "none" ELSE status)

PromiseAllInSettledOrder(p, order) == [k \in 1..Len(order) |-> p[order[k]].out]

PromiseAllReversed(p, order) == [i \in 1..Len(p) |-> p[Len(p) + 1 - i].out]

\* Promise.all: the results in the order of the documents.
PromiseAllResults(p, order) == [i \in 1..Len(p) |-> p[i].out]

NoResponse == [status |-> 0, hasResults |-> FALSE, totalProcessed |-> 0, results |-> <<>>]

ErrorResponse(status) ==
    [status |-> status, hasResults |-> FALSE, totalProcessed |-> 0, results |-> <<>>]

\* res.json({ totalProcessed: results.length, results })
BatchResponse(results) ==
    [status |-> 200, hasResults |-> TRUE, totalProcessed |-> Len(results),
     results |-> results]

IsSettled(p) == p.pc \in {"fulfilled", "rejected"}

Send(r) == response' = r /\ responsesSent' = responsesSent + 1

\* documents.map(processDocument): every call runs to its first await.
StartAll ==
    LET started == [i \in 1..Len(documents.items) |->
                        StartDocument(variant, documents.items[i], i - 1)]
    IN  /\ proc' = started
        /\ settledOrder' = SelectSeq([i \in 1..Len(started) |-> i],
                                     LAMBDA i : IsSettled(started[i]))
        /\ handler' = "processing"

\* Document i's call moves on to state q.
Advance(i, q) ==
    /\ proc' = [proc EXCEPT ![i] = q]
    /\ settledOrder' = IF IsSettled(q) THEN Append(settledOrder, i) ELSE settledOrder

\* ------------------------------------------------------- the actions

ArrayIsArrayOrObject(d) == d.kind \in {"array", "object"}

\* Array.isArray(documents)
ArrayIsArray(d) == d.kind = "array"

\* The route handler runs: the 400 answer, or connectToDatabase, or the map.
HandleRequest ==
    /\ handler = "received"
    /\ IF ~ArrayIsArray(documents)
       THEN /\ Send(ErrorResponse(400))
            /\ handler' = "responded"
            /\ UNCHANGED <<db, connectCalls, proc, settledOrder>>
       ELSE IF Persists(variant) /\ ~db
       THEN /\ connectCalls' = connectCalls + 1
            /\ handler' = "connecting"
            /\ UNCHANGED <<db, proc, settledOrder, response, responsesSent>>
       ELSE /\ StartAll
            /\ UNCHANGED <<db, connectCalls, response, responsesSent>>
    /\ UNCHANGED <<variant, documents, rateLimitsLeft, inserted, raw, cleaned, callers>>

\* client.connect() resolves.
ConnectSucceeds ==
    /\ handler = "connecting"
    /\ db' = TRUE
    /\ StartAll
    /\ UNCHANGED <<variant, documents, connectCalls, rateLimitsLeft, inserted,
                   response, responsesSent, raw, cleaned, callers>>

\* client.connect() rejects: the handler's catch answers 500.
ConnectFails ==
    /\ handler = "connecting"
    /\ Send(ErrorResponse(500))
    /\ handler' = "responded"
    /\ UNCHANGED <<variant, documents, db, connectCalls, rateLimitsLeft, proc,
                   settledOrder, inserted, raw, cleaned, callers>>

\* What an extraction library throws.
ExtractionError(extractor) == Error(extractor \o " failed", <<>>, "none")

\* The extraction service of document i returns text.
ExtractionSucceeds(i) ==
    /\ proc[i].pc = "extracting"
    /\ Advance(i, SendRequest([proc[i] EXCEPT !.extraction = "ok"], "cv text",
                              Retries(variant), Delay(variant)))
    /\ UNCHANGED <<variant, documents, handler, db, connectCalls, rateLimitsLeft,
                   inserted, response, responsesSent, raw, cleaned, callers>>

\* The extraction service of document i throws.
ExtractionFails(i) ==
    /\ proc[i].pc = "extracting"
    /\ LET p == [proc[i] EXCEPT !.extraction = "failed",
                                !.thrown = Append(@, proc[i].extractor)]
       IN  Advance(i, IF HasFallback(variant, p.extractor)
                      THEN Invoke(p, "pdf-text-extract")
                      ELSE IF Swallows(variant, p.extractor)
                      THEN SendRequest(p, "", Retries(variant), Delay(variant))
                      ELSE processDocumentCatch(p, i - 1,
                               ExtractionError(p.extractor)))
    /\ UNCHANGED <<variant, documents, handler, db, connectCalls, rateLimitsLeft,
                   inserted, response, responsesSent, raw, cleaned, callers>>

\* The LLM endpoint answers document i's request 200 with content c.
LLMSucceeds(i, c) ==
    /\ proc[i].pc = "requesting"
    /\ Advance(i, OnCompletion(variant, proc[i], i - 1, c))
    /\ UNCHANGED <<variant, documents, handler, db, connectCalls, rateLimitsLeft,
                   inserted, response, responsesSent, raw, cleaned, callers>>

\* The LLM endpoint answers document i's request 429.
LLMRateLimits(i, jitter) ==
    /\ proc[i].pc = "requesting"
    /\ rateLimitsLeft > 0
    /\ rateLimitsLeft' = rateLimitsLeft - 1
    /\ Advance(i, getAIResponseCatch(variant,
                      [proc[i] EXCEPT !.lastAnswer = "429", !.rateLimited = @ + 1],
                      i - 1, AxiosError("429"), jitter))
    /\ UNCHANGED <<variant, documents, handler, db, connectCalls, inserted,
                   response, responsesSent, raw, cleaned, callers>>

\* Document i's request fails otherwise: another status, or no response.
LLMFails(i, status) ==
    /\ proc[i].pc = "requesting"
    /\ Advance(i, getAIResponseCatch(variant, [proc[i] EXCEPT !.lastAnswer = status],
                                     i - 1, AxiosError(status), 0))
    /\ UNCHANGED <<variant, documents, handler, db, connectCalls, rateLimitsLeft,
                   inserted, response, responsesSent, raw, cleaned, callers>>

\* Document i's backoff timer fires: getAIResponse(text, retries - 1, delay * 2).
TimerFires(i) ==
    /\ proc[i].pc = "backoff"
    /\ Advance(i, SendRequest(proc[i], proc[i].text, proc[i].retries - 1,
                              NextDelay(proc[i].delay)))
    /\ UNCHANGED <<variant, documents, handler, db, connectCalls, rateLimitsLeft,
                   inserted, response, responsesSent, raw, cleaned, callers>>

\* collection.insertOne of document i resolves.
InsertSucceeds(i) ==
    /\ proc[i].pc = "inserting"
    /\ LET result == cleanAIResponse(variant, proc[i].content).value
       IN  /\ inserted' = Append(inserted,
                              [index |-> i - 1, status |-> "success", result |-> result])
           /\ Advance(i, Fulfilled([proc[i] EXCEPT !.insertion = "ok"],
                                   SuccessResult(i - 1, result)))
    /\ UNCHANGED <<variant, documents, handler, db, connectCalls, rateLimitsLeft,
                   response, responsesSent, raw, cleaned, callers>>

InsertFailureIgnored(p, index, error) ==
    Fulfilled(p, SuccessResult(index, cleanAIResponse("persist", p.content).value))

\* await collection.insertOne(...) is inside processDocument's try.
OnInsertFailure(p, index, error) == processDocumentCatch(p, index, error)

\* collection.insertOne of document i rejects.
InsertFails(i) ==
    /\ proc[i].pc = "inserting"
    /\ Advance(i, OnInsertFailure([proc[i] EXCEPT !.insertion = "failed"], i - 1,
                                  Error("insert failed", <<>>, "none")))
    /\ UNCHANGED <<variant, documents, handler, db, connectCalls, rateLimitsLeft,
                   inserted, response, responsesSent, raw, cleaned, callers>>

PromiseAllOnFirstSettled(p) ==
    Len(p) = 0 \/ \E i \in 1..Len(p) : IsSettled(p[i])

\* Promise.all settles once one promise is rejected or all are fulfilled.
PromiseAllSettled(p) ==
    \/ \E i \in 1..Len(p) : p[i].pc = "rejected"
    \/ \A i \in 1..Len(p) : p[i].pc = "fulfilled"

\* await Promise.all(...) settles: rejected as soon as one promise is,
\* fulfilled once all are; the handler answers 500 or 200.
Settle ==
    /\ handler = "processing"
    /\ PromiseAllSettled(proc)
    /\ Send(IF \E i \in 1..Len(proc) : proc[i].pc = "rejected"
            THEN ErrorResponse(500)
            ELSE BatchResponse(PromiseAllResults(proc, settledOrder)))
    /\ handler' = "responded"
    /\ UNCHANGED <<variant, documents, db, connectCalls, rateLimitsLeft, proc,
                   settledOrder, inserted, raw, cleaned, callers>>

\* ------------------------------------------------ the specifications

NotCleaned ==
    [done |-> FALSE, ok |-> FALSE, value |-> Undefined, message |-> "",
     content |-> <<>>]

\* The documents a request may carry: null, a missing field, every file type.
DocSamples ==
    {[isNull |-> TRUE, base64 |-> "", fileType |-> ""],
     [isNull |-> FALSE, base64 |-> "", fileType |-> "pdf"],
     [isNull |-> FALSE, base64 |-> "QQ==", fileType |-> ""]}
        \cup {[isNull |-> FALSE, base64 |-> "QQ==", fileType |-> t] :
                  t \in {"pdf", "PDF", "docx", "png", "jpg", "jpeg", "bmp"}}

BatchesOf(n) == [1..n -> DocSamples]

NonArrayKinds == {"undefined", "null", "object"}

InitCommon ==
    /\ variant \in Variants
    /\ handler = "received"
    /\ db = FALSE
    /\ connectCalls = 0
    /\ proc = <<>>
    /\ settledOrder = <<>>
    /\ inserted = <<>>
    /\ response = NoResponse
    /\ responsesSent = 0
    /\ raw = <<<<>>, <<>>, <<>>>>
    /\ cleaned = NotCleaned
    /\ callers = <<>>

\* One analyze-cvs request of up to MaxDocs documents, against an endpoint
\* that rate-limits at most MaxRateLimited times.
Init ==
    /\ InitCommon
    /\ documents \in {[kind |-> k, items |-> <<>>] : k \in NonArrayKinds}
           \cup {[kind |-> "array", items |-> b] :
                     b \in UNION {BatchesOf(n) : n \in 0..MaxDocs}}
    /\ rateLimitsLeft = MaxRateLimited

Next ==
    \/ HandleRequest
    \/ ConnectSucceeds
    \/ ConnectFails
    \/ \E i \in 1..Len(proc) : ExtractionSucceeds(i)
    \/ \E i \in 1..Len(proc) : ExtractionFails(i)
    \/ \E i \in 1..Len(proc), c \in Contents : LLMSucceeds(i, c)
    \/ \E i \in 1..Len(proc), j \in Jitters(variant) : LLMRateLimits(i, j)
    \/ \E i \in 1..Len(proc), st \in {"500", "network"} : LLMFails(i, st)
    \/ \E i \in 1..Len(proc) : TimerFires(i)
    \/ \E i \in 1..Len(proc) : InsertSucceeds(i)
    \/ \E i \in 1..Len(proc) : InsertFails(i)
    \/ Settle

Spec == Init /\ [][Next]_vars

\* The call that document i waits for completes, with success or failure:
\* the extraction library, the LLM endpoint, the backoff timer, insertOne.
Completes(i) ==
    /\ i \in 1..Len(proc)
    /\ \/ ExtractionFails(i)
       \/ ExtractionSucceeds(i)
       \/ \E st \in {"500", "network"} : LLMFails(i, st)
       \/ \E j \in Jitters(variant) : LLMRateLimits(i, j)
       \/ \E c \in Contents : LLMSucceeds(i, c)
       \/ TimerFires(i)
       \/ InsertFails(i)
       \/ InsertSucceeds(i)

\* The event loop runs the handler of a request that has arrived and every
\* continuation whose promise is settled; every call made to a library, to
\* the LLM endpoint or to the database, and every timer, completes.
Fairness ==
    /\ WF_vars(HandleRequest)
    /\ WF_vars(ConnectSucceeds \/ ConnectFails)
    /\ \A i \in 1..MaxDocs : WF_vars(Completes(i))
    /\ WF_vars(Settle)

\* The documents of the requests followed to their answer: null, a PDF, a
\* Word document, an image, a type that is not supported.
LiveSamples ==
    {d \in DocSamples : d.isNull \/ (d.base64 # "" /\ d.fileType \in {"pdf", "docx", "png", "bmp"})}

\* A request as in Init, its documents taken from LiveSamples.
InitLive ==
    /\ InitCommon
    /\ documents \in {[kind |-> k, items |-> <<>>] : k \in NonArrayKinds}
           \cup {[kind |-> "array", items |-> b] :
                     b \in UNION {[1..n -> LiveSamples] : n \in 0..MaxDocs}}
    /\ rateLimitsLeft = MaxRateLimited

\* A request in an environment where every call completes.
SpecLive == InitLive /\ [][Next]_vars /\ Fairness

\* One request of a single document, against an endpoint that may answer
\* every request of a getAIResponse invocation, and one more, with 429.
InitRetry ==
    /\ InitCommon
    /\ documents \in {[kind |-> "array", items |-> b] : b \in BatchesOf(1)}
    /\ rateLimitsLeft = PersistRetries + 2

SpecRetry == InitRetry /\ [][Next]_vars

\* cleanAIResponse alone, on every prefix + body + suffix.
InitClean ==
    /\ variant \in CleaningVariants
    /\ documents = [kind |-> "undefined", items |-> <<>>]
    /\ handler = "idle"
    /\ db = FALSE
    /\ connectCalls = 0
    /\ rateLimitsLeft = 0
    /\ proc = <<>>
    /\ settledOrder = <<>>
    /\ inserted = <<>>
    /\ response = NoResponse
    /\ responsesSent = 0
    /\ raw \in {<<pre, body, suf>> : pre \in Prefixes, body \in Bodies, suf \in Suffixes}
    /\ cleaned = NotCleaned
    /\ callers = <<>>

RawContent == raw[1] \o raw[2] \o raw[3]

Clean ==
    /\ ~cleaned.done
    /\ cleaned' = [done |-> TRUE] @@
                      (IF variant \in InlineVariants
                       THEN parseBlock(variant, RawContent)
                       ELSE cleanAIResponse(variant, RawContent))
    /\ UNCHANGED <<pipelineVars, raw, callers>>

NextClean == Clean

SpecClean == InitClean /\ [][NextClean]_vars

\* ------------------------------------------- connectToDatabase at large

\* A request handler that calls connectToDatabase: where its call is, how
\* many calls it made, how many of them threw.
Caller == [pc |-> "idle", calls |-> 0, rejections |-> 0]

\* The handlers of part_004 (analyze-cvs, responses, ...) run on one event
\* loop, each calling connectToDatabase, over a module-level db that is unset.
InitConnect ==
    /\ variant = "persist"
    /\ documents = [kind |-> "undefined", items |-> <<>>]
    /\ handler = "idle"
    /\ db = FALSE
    /\ connectCalls = 0
    /\ rateLimitsLeft = 0
    /\ proc = <<>>
    /\ settledOrder = <<>>
    /\ inserted = <<>>
    /\ response = NoResponse
    /\ responsesSent = 0
    /\ raw = <<<<>>, <<>>, <<>>>>
    /\ cleaned = NotCleaned
    /\ callers = [c \in 1..MaxCallers |-> Caller]

\* Handler c calls connectToDatabase(): if (!db) it calls client.connect()
\* and is suspended at the await; else it gets db back.
connectToDatabase(c) ==
    /\ callers[c].pc # "connecting"
    /\ callers[c].calls < MaxCalls
    /\ IF ~db
       THEN /\ connectCalls' = connectCalls + 1
            /\ callers' = [callers EXCEPT ![c].pc = "connecting", ![c].calls = @ + 1]
       ELSE /\ connectCalls' = connectCalls
            /\ callers' = [callers EXCEPT ![c].pc = "returned", ![c].calls = @ + 1]
    /\ UNCHANGED <<variant, documents, handler, db, rateLimitsLeft, proc,
                   settledOrder, inserted, response, responsesSent, raw, cleaned>>

\* The client.connect() of handler c resolves: db = client.db(...); return db.
ClientConnectResolves(c) ==
    /\ callers[c].pc = "connecting"
    /\ db' = TRUE
    /\ callers' = [callers EXCEPT ![c].pc = "returned"]
    /\ UNCHANGED <<variant, documents, handler, connectCalls, rateLimitsLeft, proc,
                   settledOrder, inserted, response, responsesSent, raw, cleaned>>

\* The client.connect() of handler c rejects: connectToDatabase throws, db
\* stays as it is.
ClientConnectRejects(c) ==
    /\ callers[c].pc = "connecting"
    /\ callers' = [callers EXCEPT ![c].pc = "rejected", ![c].rejections = @ + 1]
    /\ UNCHANGED <<variant, documents, handler, db, connectCalls, rateLimitsLeft,
                   proc, settledOrder, inserted, response, responsesSent, raw,
                   cleaned>>

NextConnect ==
    \/ \E c \in 1..MaxCallers : connectToDatabase(c)
    \/ \E c \in 1..MaxCallers : ClientConnectResolves(c)
    \/ \E c \in 1..MaxCallers : ClientConnectRejects(c)

SpecConnect == InitConnect /\ [][NextConnect]_vars

\* ---------------------------------------------------------- the claims

Docs == 1..Len(proc)

\* What the variant's decoding of an LLM answer gives.
Sanitized(v, content) ==
    IF v \in InlineVariants THEN parseBlock(v, content) ELSE cleanAIResponse(v, content)

\* C1: whenever analyze-cvs answers an array of N documents with results,
\* there are exactly N of them, the one at position i has index i (counted
\* from 0), and totalProcessed is N, whatever succeeded or failed and in
\* whatever order the documents' pipelines completed.
C1_OneResultPerDocument ==
    (documents.kind = "array" /\ response.hasResults) =>
        /\ Len(response.results) = Len(documents.items)
        /\ response.totalProcessed = Len(documents.items)
        /\ \A i \in 1..Len(response.results) : response.results[i].index = i - 1

\* Two documents, the second settled first, one success and one error.
C1_Witness ==
    /\ response.hasResults
    /\ Len(documents.items) = 2
    /\ settledOrder = <<2, 1>>
    /\ response.results[1].status = "success"
    /\ response.results[2].status = "error"

\* A failure reached processDocument: a null document, an extraction error
\* the extractor did not catch, an LLM error that was not retried, a
\* response cleanAIResponse threw on, a rejected insert.
FailureReached(i) ==
    \/ documents.items[i].isNull
    \/ proc[i].extraction = "failed" /\ proc[i].requests = 0
    \/ proc[i].lastAnswer \in {"429", "500", "network"}
    \/ /\ proc[i].lastAnswer = "200"
       /\ variant # "netlify"
       /\ ~Sanitized(variant, proc[i].content).ok
    \/ proc[i].insertion = "failed"

CompletionSucceeded(i) ==
    /\ proc[i].extraction = "ok"
    /\ proc[i].lastAnswer = "200"
    /\ variant # "netlify" => Sanitized(variant, proc[i].content).ok

\* C3 as claimed: in a batch's results, every document whose extraction
\* service threw has status 'error', every document whose own extraction
\* and completion succeeded has status 'success', one result per document.
C3_AsClaimed ==
    response.hasResults =>
        /\ Len(response.results) = Len(documents.items)
        /\ \A i \in Docs :
               /\ proc[i].extraction = "failed" => response.results[i].status = "error"
               /\ CompletionSucceeded(i) => response.results[i].status = "success"

\* C3, amended: a document whose extraction service threw has status 'error'
\* when the service is the OCR (png, jpg, jpeg), or the handler calls the
\* libraries itself (the netlify function, "inline"), or the service is the
\* secondary PDF extraction; in server.js and the persisting variant a pdf
\* or docx whose service threw, and in "inlineFence" a docx whose service
\* threw, goes on to the LLM request with empty text.  A document
\* whose own extraction and completion (and, where results are persisted,
\* insert) succeeded has status 'success'.  One result per document.
C3_ExtractionFailureIsolated ==
    response.hasResults =>
        /\ Len(response.results) = Len(documents.items)
        /\ \A i \in Docs :
               /\ ( /\ proc[i].extraction = "failed"
                    /\ \/ proc[i].extractor \in {"Tesseract", "pdf-text-extract"}
                       \/ variant \in {"netlify", "inline"} )
                      => response.results[i].status = "error" /\ proc[i].requests = 0
               /\ ( /\ proc[i].extraction = "failed"
                    /\ \/ /\ proc[i].extractor \in {"pdfParse", "mammoth"}
                          /\ variant \in {"server", "persist"}
                       \/ proc[i].extractor = "docx4js" )
                      => proc[i].requests >= 1 /\ proc[i].text = ""
               /\ ( /\ CompletionSucceeded(i)
                    /\ variant = "persist" => proc[i].insertion = "ok" )
                      => response.results[i].status = "success"

\* An image whose OCR threw beside a document that succeeded.
C3_Witness ==
    /\ response.hasResults
    /\ Len(proc) = 2
    /\ proc[1].extractor = "Tesseract"
    /\ proc[1].extraction = "failed"
    /\ response.results[1].status = "error"
    /\ proc[2].extraction = "ok"
    /\ response.results[2].status = "success"

\* C4: once analyze-cvs has answered, the answer carries the results exactly
\* when documents was an array: the call fails as a whole only for a
\* documents that is no array.
C4_FailsOnlyOnNonArray ==
    handler = "responded" =>
        (response.hasResults /\ response.status = 200) = (documents.kind = "array")

NonDecreasing(seq) == \A k \in 1..(Len(seq) - 1) : seq[k] <= seq[k + 1]

\* C5: when the requests of a getAIResponse invocation were answered 429
\* k times and then 200, exactly k backoff delays were waited, k + 1 requests
\* sent, the delays waited (jitter included) are non-decreasing, and what
\* processDocument returns as the result is the sanitized content.
C5_RetriesThenSucceeds ==
    \A i \in Docs :
        (HasRetry(variant) /\ proc[i].lastAnswer = "200") =>
            /\ Len(proc[i].waits) = proc[i].rateLimited
            /\ proc[i].requests = proc[i].rateLimited + 1
            /\ NonDecreasing(proc[i].waits)
            /\ (proc[i].pc = "fulfilled" /\ proc[i].out.status = "success") =>
                   /\ cleanAIResponse(variant, proc[i].content).ok
                   /\ proc[i].out.result = cleanAIResponse(variant, proc[i].content).value

\* Three 429 answers, then a 200 whose content is returned.
C5_Witness ==
    \E i \in Docs :
        /\ variant = "persist"
        /\ proc[i].lastAnswer = "200"
        /\ proc[i].rateLimited = 3
        /\ proc[i].waits[2] = 2 * PersistDelay + JitterRange - 1
        /\ proc[i].pc = "fulfilled"
        /\ proc[i].out.status = "success"

\* C6: one getAIResponse invocation sends at most retries + 1 requests (and
\* waits at most retries delays); when every one of them was answered 429 the
\* document's result is an error carrying the rate-limit failure.
C6_BoundedRetries ==
    \A i \in Docs :
        HasRetry(variant) =>
            /\ proc[i].requests <= Retries(variant) + 1
            /\ Len(proc[i].waits) <= Retries(variant)
            /\ proc[i].rateLimited = Retries(variant) + 1 =>
                   /\ proc[i].pc = "fulfilled"
                   /\ proc[i].out.status = "error"
                   /\ proc[i].out.error = StatusMessage("429")

\* server.js: the fifth request, like the four before it, was answered 429.
C6_Witness ==
    \E i \in Docs :
        /\ variant = "server"
        /\ proc[i].rateLimited = ServerRetries + 1
        /\ proc[i].requests = ServerRetries + 1
        /\ proc[i].out.status = "error"

\* C7: after an upstream failure other than 429 (another status, or no
\* response at all) the document has its error result at once: no backoff
\* delay was waited for it and no further request sent.
C7_OtherFailuresNotRetried ==
    \A i \in Docs :
        proc[i].lastAnswer \in {"500", "network"} =>
            /\ proc[i].pc = "fulfilled"
            /\ proc[i].out.status = "error"
            /\ proc[i].out.error = StatusMessage(proc[i].lastAnswer)
            /\ proc[i].requests = proc[i].rateLimited + 1
            /\ Len(proc[i].waits) = proc[i].rateLimited

\* A 500 answer to the request that followed one 429 and its backoff.
C7_Witness ==
    \E i \in Docs :
        /\ HasRetry(variant)
        /\ proc[i].lastAnswer = "500"
        /\ proc[i].rateLimited = 1
        /\ proc[i].retries = Retries(variant) - 1

NoChar(str, c) == \A i \in 1..Len(str) : str[i] # c

\* C8: for every raw response in which a { or a } is absent, cleanAIResponse
\* throws, and what it throws carries the raw response unchanged.
C8_FailsWithoutBraces ==
    (cleaned.done /\ (NoChar(RawContent, "{") \/ NoChar(RawContent, "}"))) =>
        ~cleaned.ok /\ cleaned.content = RawContent

\* The raw response is prefix + J + suffix, J a well-formed JSON object
\* text, no { in the prefix and no } in the suffix.
WrappedObjectText ==
    /\ NoChar(raw[1], "{")
    /\ NoChar(raw[3], "}")
    /\ JSONParse(raw[2]).ok
    /\ JSONParse(raw[2]).v.t = "obj"

OnlyWhitespace(str) == \A i \in 1..Len(str) : IsWhitespace(str[i])

\* The prefix is the json fence marker, whitespace around it.
FenceInFront ==
    LET p == TrimStart(raw[1])
    IN  /\ StartsWith(p, FenceStart)
        /\ OnlyWhitespace(SubSeq(p, Len(FenceStart) + 1, Len(p)))

\* The suffix is the closing fence marker, whitespace around it.
FenceBehind ==
    LET q == TrimEnd(raw[3])
    IN  /\ EndsWith(q, FenceStop)
        /\ OnlyWhitespace(SubSeq(q, 1, Len(q) - Len(FenceStop)))

\* What the "inlineFence" handler can remove around J: whitespace, or the
\* json fence marker in front together with whitespace or the closing marker
\* behind.
RemovableByInlineFence ==
    \/ OnlyWhitespace(raw[1]) /\ OnlyWhitespace(raw[3])
    \/ FenceInFront /\ (OnlyWhitespace(raw[3]) \/ FenceBehind)

GroupedSkills(decoded) ==
    /\ GetProp(decoded.v, Skills).t = "obj"
    /\ \A i \in 1..Len(GetProp(decoded.v, Skills).v) :
           GetProp(decoded.v, Skills).v[i].v.t = "arr"

\* The category sequences of a grouped Skills, concatenated in the order of
\* the categories.
ConcatenatedCategories(decoded) ==
    [t |-> "arr", s |-> <<>>,
     v |-> Flatten([i \in 1..Len(GetProp(decoded.v, Skills).v) |->
                        GetProp(decoded.v, Skills).v[i].v.v])]

\* C10: a record the sanitizer returns never has an object under Skills;
\* when the decoded response had Skills grouped by category, the record has
\* the concatenation of the category sequences there.
C10_SkillsAlwaysFlat ==
    (cleaned.done /\ cleaned.ok /\ cleaned.value.t = "obj") =>
        /\ GetProp(cleaned.value.v, Skills).t # "obj"
        /\ (WrappedObjectText /\ GroupedSkills(JSONParse(raw[2]).v)) =>
               GetProp(cleaned.value.v, Skills)
                   = ConcatenatedCategories(JSONParse(raw[2]).v)

\* What JSON.parse returned inside cleanAIResponse: the decoding of the
\* slice (rid of its control characters where the variant strips them).
DecodedResponse ==
    LET cleanContent == Trim(RawContent)
        sliced == Substring(cleanContent, JsonStart(cleanContent), JsonEnd(cleanContent))
    IN  JSONParse(IF StripsControl(variant) THEN StripControl(sliced) ELSE sliced).v

\* The strings, numbers and nulls that occur anywhere in a value.
RECURSIVE Leaves(_)
Leaves(value) ==
    IF value.t \in {"arr", "obj"}
    THEN UNION {Leaves(value.v[i].v) : i \in 1..Len(value.v)}
    ELSE {value}

\* C11: cleanAIResponse either throws an error with a message or returns a
\* record in which every value of the decoded JSON object still occurs, the
\* values under the categories of a grouped Skills included.
C11_NeverDropsData ==
    (cleaned.done /\ variant \in SanitizerVariants) =>
        IF cleaned.ok
        THEN Leaves(DecodedResponse) \subseteq Leaves(cleaned.value)
        ELSE cleaned.message # ""

\* C12: the record of every result with status 'success' is an object that
\* has all eleven top-level keys, none of them holding null or undefined.
C12_AllKeysPresent ==
    \A i \in Docs :
        (proc[i].pc = "fulfilled" /\ proc[i].out.status = "success") =>
            /\ proc[i].out.result.t = "obj"
            /\ \A k \in 1..Len(TopLevelKeys) :
                   /\ HasProp(proc[i].out.result.v, TopLevelKeys[k])
                   /\ GetProp(proc[i].out.result.v, TopLevelKeys[k]).t
                          \notin {"null", "undefined"}

\* Document i's answer arrived and could not be decoded.
RecoveryFailed(i) ==
    /\ proc[i].lastAnswer = "200"
    /\ variant # "netlify"
    /\ ~Sanitized(variant, proc[i].content).ok

\* C13: the result of a document whose LLM answer could not be recovered as
\* JSON has a rawContent that equals the answer, and no other result has a
\* rawContent.
C13_RawContentOnRecoveryFailure ==
    \A i \in Docs :
        proc[i].pc = "fulfilled" =>
            IF RecoveryFailed(i)
            THEN /\ proc[i].out.status = "error"
                 /\ proc[i].out.hasRawContent
                 /\ proc[i].out.rawContent = proc[i].content
            ELSE ~proc[i].out.hasRawContent

SupportedTypes == {"pdf", "docx", "png", "jpg", "jpeg"}

\* Document i has both fields and a file type that is none of the supported.
UnsupportedDocument(i) ==
    /\ ~documents.items[i].isNull
    /\ documents.items[i].base64 # ""
    /\ documents.items[i].fileType # ""
    /\ ToLowerCase(documents.items[i].fileType) \notin SupportedTypes

\* C14: as soon as the documents are mapped, a document of an unsupported
\* file type has an error result that says so; no extraction library was
\* called and no LLM request sent for it, then or later.
C14_UnsupportedTypeRejected ==
    \A i \in Docs :
        UnsupportedDocument(i) =>
            /\ proc[i].pc = "fulfilled"
            /\ proc[i].out.status = "error"
            /\ proc[i].out.error = UnsupportedMessage
            /\ proc[i].attempts = <<>>
            /\ proc[i].extraction = "none"
            /\ proc[i].requests = 0

\* A bmp beside a PDF that went through extraction and completion.
C14_Witness ==
    /\ handler = "responded"
    /\ Len(proc) = 2
    /\ documents.items[1].fileType = "bmp"
    /\ UnsupportedDocument(1)
    /\ response.results[1].error = UnsupportedMessage
    /\ documents.items[2].fileType = "PDF"
    /\ proc[2].requests = 1
    /\ response.results[2].status = "success"

\* Document i is an object without base64 or without fileType.
IncompleteDocument(i) ==
    /\ ~documents.items[i].isNull
    /\ documents.items[i].base64 = "" \/ documents.items[i].fileType = ""

\* Document i has both fields and a supported file type.
ProcessableDocument(i) ==
    /\ ~documents.items[i].isNull
    /\ documents.items[i].base64 # ""
    /\ ToLowerCase(documents.items[i].fileType) \in SupportedTypes

\* C15: as soon as the documents are mapped, a document without base64 or
\* without fileType has the error result 'Missing base64 or fileType'; its
\* base64 was not decoded, no extraction library called and no LLM request
\* sent for it, then or later; the extraction of every sibling that has both
\* fields and a supported type was started all the same.
C15_MissingFieldRejected ==
    \A i \in Docs :
        IncompleteDocument(i) =>
            /\ proc[i].pc = "fulfilled"
            /\ proc[i].out.status = "error"
            /\ proc[i].out.error = MissingMessage
            /\ ~proc[i].decoded
            /\ proc[i].attempts = <<>>
            /\ proc[i].requests = 0
            /\ \A j \in Docs :
                   ProcessableDocument(j) =>
                       proc[j].decoded /\ Len(proc[j].attempts) >= 1

\* A document without fileType beside a docx that succeeded.
C15_Witness ==
    /\ handler = "responded"
    /\ Len(proc) = 2
    /\ IncompleteDocument(1)
    /\ documents.items[1].fileType = ""
    /\ response.results[1].error = MissingMessage
    /\ documents.items[2].fileType = "docx"
    /\ response.results[2].status = "success"

\* C16: whenever a response has been sent, no document of the batch is still
\* extracting, awaiting the LLM, waiting in a backoff delay or inserting:
\* every started document has its result, and these are the results sent.
C16_ResponseAfterAllDocuments ==
    responsesSent > 0 =>
        /\ responsesSent = 1
        /\ \A i \in Docs : proc[i].pc = "fulfilled"
        /\ response.hasResults =>
               /\ Len(proc) = Len(documents.items)
               /\ \A i \in Docs : response.results[i] = proc[i].out

\* The response of a batch whose first document finished last, after a
\* backoff delay, while the second had long failed.
C16_Witness ==
    /\ responsesSent = 1
    /\ response.hasResults
    /\ settledOrder = <<2, 1>>
    /\ Len(proc[1].waits) = 1
    /\ response.results[1].status = "success"
    /\ response.results[2].status = "error"

\* Document i is a docx whose extraction library threw.
DocxExtractionFailed(i) ==
    /\ ~documents.items[i].isNull
    /\ ToLowerCase(documents.items[i].fileType) = "docx"
    /\ proc[i].extraction = "failed"

OCRFailed(i) ==
    /\ ~documents.items[i].isNull
    /\ ToLowerCase(documents.items[i].fileType) \in {"png", "jpg", "jpeg"}
    /\ proc[i].extraction = "failed"

\* C18: an image whose OCR threw has an error result carrying the OCR's
\* failure; Tesseract was the only library called for it, and no LLM request
\* was sent for it.
C18_OCRFailurePropagates ==
    \A i \in Docs :
        OCRFailed(i) =>
            /\ proc[i].attempts = <<"Tesseract">>
            /\ proc[i].requests = 0
            /\ proc[i].text = ""
            /\ proc[i].pc = "fulfilled"
            /\ proc[i].out.status = "error"
            /\ proc[i].out.error = ExtractionError("Tesseract").message

\* A jpeg whose OCR threw, in the response of the persisting variant.
C18_Witness ==
    /\ variant = "persist"
    /\ response.hasResults
    /\ Len(proc) = 1
    /\ documents.items[1].fileType = "jpeg"
    /\ OCRFailed(1)
    /\ response.results[1].status = "error"

\* Document i has both fields and the file type pdf.
PdfDocument(i) ==
    /\ ~documents.items[i].isNull
    /\ documents.items[i].base64 # ""
    /\ ToLowerCase(documents.items[i].fileType) = "pdf"

Occurs(x, seq) == \E k \in 1..Len(seq) : seq[k] = x

\* C19 as claimed: for a pdf, the secondary extraction has been attempted
\* exactly when the primary one failed, each at most once and in that
\* order, and when both failed the result is an error carrying the
\* secondary's failure.
C19_AsClaimed ==
    \A i \in Docs :
        PdfDocument(i) =>
            /\ Len(proc[i].attempts) = 2 <=> Len(proc[i].thrown) >= 1
            /\ Len(proc[i].attempts) <= 2
            /\ Len(proc[i].attempts) = 2 => proc[i].attempts[1] # proc[i].attempts[2]
            /\ (Len(proc[i].thrown) = 2 /\ proc[i].pc = "fulfilled") =>
                   /\ proc[i].out.status = "error"
                   /\ proc[i].out.error = ExtractionError(proc[i].attempts[2]).message

\* C19, amended: only the handler with its own extractTextFromPDF over
\* pdf-lib ("inlineFence") has a secondary extraction.  There
\* pdf-text-extract has been attempted exactly when pdf-lib threw, each at
\* most once and in that order; when both threw the result is an error
\* carrying pdf-text-extract's failure and no LLM request was sent; when the
\* secondary gave text the request was sent with it.  In every other variant
\* pdf-parse is the only library attempted, once, whether it threw or not.
C19_FallbackOnlyAfterPrimaryFailure ==
    \A i \in Docs :
        PdfDocument(i) =>
            IF variant = "inlineFence"
            THEN /\ proc[i].attempts \in {<<"pdf-lib">>, <<"pdf-lib", "pdf-text-extract">>}
                 /\ Occurs("pdf-text-extract", proc[i].attempts)
                        <=> Occurs("pdf-lib", proc[i].thrown)
                 /\ Occurs("pdf-text-extract", proc[i].thrown) =>
                        /\ proc[i].thrown = <<"pdf-lib", "pdf-text-extract">>
                        /\ proc[i].pc = "fulfilled"
                        /\ proc[i].out.status = "error"
                        /\ proc[i].out.error = ExtractionError("pdf-text-extract").message
                        /\ proc[i].requests = 0
                 /\ (proc[i].extraction = "ok" /\ proc[i].thrown = <<"pdf-lib">>) =>
                        proc[i].requests = 1 /\ proc[i].text = "cv text"
            ELSE /\ proc[i].attempts = <<"pdfParse">>
                 /\ proc[i].thrown \in {<<>>, <<"pdfParse">>}

\* pdf-lib threw, then pdf-text-extract threw: the result carries the latter.
C19_Witness ==
    /\ variant = "inlineFence"
    /\ response.hasResults
    /\ Len(proc) = 1
    /\ PdfDocument(1)
    /\ proc[1].thrown = <<"pdf-lib", "pdf-text-extract">>
    /\ response.results[1].error = ExtractionError("pdf-text-extract").message

\* How many of the inserted records are document i's.
InsertedFor(i) ==
    Cardinality({k \in 1..Len(inserted) : inserted[k].index = i - 1})

\* C20: in the persisting variant, a document whose processDocument has
\* returned has exactly one record in the responses collection when its
\* result has status 'success' and none when it has status 'error'; whether
\* it has one depends on its own insert alone.  Nothing is inserted beyond
\* the documents' records, and nothing at all in the other variants.
C20_OneRecordPerSuccess ==
    /\ ~Persists(variant) => inserted = <<>>
    /\ \A k \in 1..Len(inserted) : inserted[k].index + 1 \in Docs
    /\ Persists(variant) => \A i \in Docs :
           /\ InsertedFor(i) = IF proc[i].insertion = "ok" THEN 1 ELSE 0
           /\ proc[i].pc = "fulfilled" =>
                  InsertedFor(i) = IF proc[i].out.status = "success" THEN 1 ELSE 0
           /\ (proc[i].pc = "fulfilled" /\ proc[i].out.status = "success") =>
                  \E k \in 1..Len(inserted) :
                      /\ inserted[k].index = i - 1
                      /\ inserted[k].result = proc[i].out.result

\* The first document's insert was rejected, the second's went through.
C20_Witness ==
    /\ variant = "persist"
    /\ response.hasResults
    /\ Len(proc) = 2
    /\ proc[1].insertion = "failed"
    /\ response.results[1].status = "error"
    /\ response.results[2].status = "success"
    /\ Len(inserted) = 1
    /\ inserted[1].index = 1

\* The result of a document as a function of the variant, the document, its
\* index and the outcomes p of its own extraction, LLM and insert calls.
OwnResult(v, doc, index, p) ==
    IF doc.isNull THEN ErrorResult(index, "Cannot read properties of null", <<>>)
    ELSE IF doc.base64 = "" \/ doc.fileType = ""
    THEN ErrorResult(index, MissingMessage, <<>>)
    ELSE IF ToLowerCase(doc.fileType) \notin SupportedTypes
    THEN ErrorResult(index, UnsupportedMessage, <<>>)
    ELSE IF p.extraction = "failed" /\ p.requests = 0
    THEN ErrorResult(index, ExtractionError(p.thrown[Len(p.thrown)]).message, <<>>)
    ELSE IF p.lastAnswer # "200"
    THEN ErrorResult(index, StatusMessage(p.lastAnswer), <<>>)
    ELSE IF v = "netlify" THEN SuccessResult(index, JStr(p.content))
    ELSE IF ~Sanitized(v, p.content).ok
    THEN IF v \in InlineVariants
         THEN RawContentResult(index, InlineParseMessage, p.content)
         ELSE ErrorResult(index, Sanitized(v, p.content).message,
                          Sanitized(v, p.content).content)
    ELSE IF p.insertion = "failed" THEN ErrorResult(index, "insert failed", <<>>)
    ELSE SuccessResult(index, Sanitized(v, p.content).value)

\* A step that moves one document on leaves every sibling as it was, and a
\* document that has its result keeps it.
SiblingsUntouched ==
    proc # <<>> =>
        /\ Len(proc') = Len(proc)
        /\ \A i \in Docs :
               /\ IsSettled(proc[i]) => proc'[i] = proc[i]
               /\ proc'[i] # proc[i] => \A j \in Docs \ {i} : proc'[j] = proc[j]

\* The results are those of the documents' own outcomes, each at its index.
ResultsAreOwn ==
    /\ \A i \in Docs :
           proc[i].pc = "fulfilled" =>
               proc[i].out = OwnResult(variant, documents.items[i], i - 1, proc[i])
    /\ response.hasResults =>
           \A i \in Docs :
               response.results[i] = OwnResult(variant, documents.items[i], i - 1, proc[i])

\* C21: the result at index i is a function of document i and of the
\* outcomes of its own extraction, LLM and insert calls alone, whatever the
\* siblings are, however they end and in whatever order; no step of one
\* document changes another.
C21_DocumentsIndependent == []ResultsAreOwn /\ [][SiblingsUntouched]_vars

\* The second document failed and was done first; the first, done after it,
\* succeeded all the same.
C21_Witness ==
    /\ response.hasResults
    /\ settledOrder = <<2, 1>>
    /\ response.results[1].status = "success"
    /\ proc[2].lastAnswer = "500"
    /\ response.results[2].status = "error"

\* C22: for a documents that is no array nothing is ever processed: no
\* document is started (no decoding, extraction or LLM request), the store
\* is not connected to and nothing is inserted; the one response sent is
\* the 400 error.
C22_NonArrayRejectedFirst ==
    documents.kind # "array" =>
        /\ proc = <<>>
        /\ connectCalls = 0
        /\ ~db
        /\ inserted = <<>>
        /\ handler \in {"received", "responded"}
        /\ handler = "responded" =>
               /\ responsesSent = 1
               /\ response.status = 400
               /\ ~response.hasResults

\* The persisting variant has answered 400 to a documents that is an object.
C22_Witness ==
    /\ variant = "persist"
    /\ documents.kind = "object"
    /\ handler = "responded"
    /\ response.status = 400
    /\ connectCalls = 0

\* C23: the delay waited before the k-th retry is base * 2^(k-1) plus a
\* jitter: base 1000 and no jitter in server.js, base 2000 and a jitter in
\* [0, 1000) in the persisting variant; the delay handed to the next
\* invocation is the doubled base, without the jitter.
C23_DelayDoubles ==
    \A i \in Docs :
        HasRetry(variant) =>
            /\ \A k \in 1..Len(proc[i].waits) :
                   /\ proc[i].waits[k] >= Delay(variant) * 2^(k - 1)
                   /\ proc[i].waits[k] < Delay(variant) * 2^(k - 1)
                                             + (IF variant = "persist" THEN JitterRange ELSE 1)
            /\ proc[i].requests >= 1 =>
                   proc[i].delay = Delay(variant) * 2^(proc[i].requests - 1)

\* The persisting variant waited a full jitter twice and then the bare base.
C23_Witness ==
    \E i \in Docs :
        /\ variant = "persist"
        /\ Len(proc[i].waits) = 3
        /\ proc[i].waits[1] = 2999
        /\ proc[i].waits[2] = 4999
        /\ proc[i].waits[3] = 8000

\* C24: normalizeSkills changes nothing but Skills: the returned record has
\* the keys of the decoded object, in their order, every key other than
\* Skills with its decoded value; when the decoded Skills is an array, a
\* string, null or absent, the record is the decoded value itself.
C24_OnlySkillsChanges ==
    (NormalizesSkills(variant) /\ cleaned.done /\ cleaned.ok) =>
        /\ cleaned.value.t = DecodedResponse.t
        /\ cleaned.value.t = "obj" =>
               /\ Len(cleaned.value.v) = Len(DecodedResponse.v)
               /\ \A i \in 1..Len(DecodedResponse.v) :
                      /\ cleaned.value.v[i].k = DecodedResponse.v[i].k
                      /\ DecodedResponse.v[i].k # Skills =>
                             cleaned.value.v[i].v = DecodedResponse.v[i].v
        /\ (DecodedResponse.t = "obj" =>
                GetProp(DecodedResponse.v, Skills).t \in {"arr", "str", "null", Undefined.t})
               => cleaned.value = DecodedResponse

\* A record with a Name and grouped Skills went through normalizeSkills.
C24_Witness ==
    /\ NormalizesSkills(variant)
    /\ cleaned.done
    /\ cleaned.ok
    /\ HasProp(DecodedResponse.v, Name)
    /\ GetProp(DecodedResponse.v, Skills).t = "obj"
    /\ cleaned.value # DecodedResponse
    /\ GetProp(cleaned.value.v, Name) = GetProp(DecodedResponse.v, Name)

\* The sanitizer got past its test of jsonStart and jsonEnd and called
\* JSON.parse.
ParserCalled ==
    /\ variant \in SanitizerVariants
    /\ cleaned.done
    /\ JsonStart(Trim(RawContent)) # -1
    /\ JsonEnd(Trim(RawContent)) # -1

\* What the sanitizer sliced out of the trimmed response.
Sliced ==
    Substring(Trim(RawContent), JsonStart(Trim(RawContent)), JsonEnd(Trim(RawContent)))

\* C25: the text handed to JSON.parse has no control character, and is the
\* slice with its control characters removed and nothing else.
C25_NoControlCharacterParsed ==
    ParserCalled =>
        /\ \A i \in 1..Len(ParserArgument(variant, Sliced)) :
               ~IsControl(ParserArgument(variant, Sliced)[i])
        /\ ParserArgument(variant, Sliced) = StripControl(Sliced)

\* The requests of a document call that the endpoint has not answered yet:
\* those sent, less those answered 429, less the one answered otherwise.
InFlight(p) ==
    p.requests - p.rateLimited
        - (IF p.lastAnswer \in {"200", "500", "network"} THEN 1 ELSE 0)

\* A step sends a request of document i that is not its first one.
SendsRetry(i) ==
    /\ i \in Docs
    /\ i \in 1..Len(proc')
    /\ proc[i].requests >= 1
    /\ proc'[i].requests # proc[i].requests

\* C26: a document never has two LLM requests in flight, and a retry request
\* is sent only by the timer of a backoff that followed a 429 answer to the
\* previous request, every earlier request answered 429 and waited for.
C26_OneRequestInFlight ==
    /\ [](\A i \in Docs :
              /\ InFlight(proc[i]) \in {0, 1}
              /\ InFlight(proc[i]) = 1 <=> proc[i].pc = "requesting")
    /\ [][\A i \in 1..MaxDocs :
              SendsRetry(i) =>
                  /\ proc'[i].requests = proc[i].requests + 1
                  /\ proc[i].pc = "backoff"
                  /\ InFlight(proc[i]) = 0
                  /\ proc[i].lastAnswer = "429"
                  /\ proc[i].rateLimited = proc[i].requests
                  /\ Len(proc[i].waits) = proc[i].requests]_vars

\* The third request of a document is in flight, after two 429 answers and
\* two backoff delays.
C26_Witness ==
    \E i \in Docs :
        /\ proc[i].pc = "requesting"
        /\ proc[i].requests = 3
        /\ proc[i].rateLimited = 2
        /\ Len(proc[i].waits) = 2

\* Once db is set, no step calls client.connect().
NoConnectOnceSet == [][db => connectCalls' = connectCalls]_vars

\* C27: as long as no client.connect() has failed, client.connect() is
\* called at most once, whatever the interleaving of the calls of
\* connectToDatabase.
C27_ConnectsAtMostOnce ==
    (\A c \in 1..Len(callers) : callers[c].rejections = 0) => connectCalls <= 1

\* The request of document i was answered 200 and the sanitizer threw on
\* the content.
SanitizationFailed(i) ==
    /\ HasRetry(variant)
    /\ proc[i].lastAnswer = "200"
    /\ ~cleanAIResponse(variant, proc[i].content).ok

\* C28: a 200 answer whose content fails sanitization is never retried: the
\* document has its error result at once, the 200 request was its last
\* request, and no backoff was waited after it.
C28_SanitizationFailureNotRetried ==
    \A i \in Docs :
        SanitizationFailed(i) =>
            /\ proc[i].pc = "fulfilled"
            /\ proc[i].out.status = "error"
            /\ proc[i].requests = proc[i].rateLimited + 1
            /\ Len(proc[i].waits) = proc[i].rateLimited

\* Prose came back on the second request, with retries still to spare.
C28_Witness ==
    \E i \in Docs :
        /\ SanitizationFailed(i)
        /\ proc[i].content = ProseContent
        /\ proc[i].rateLimited = 1
        /\ proc[i].retries > 0
        /\ proc[i].out.status = "error"

\* The trimmed response has a { and, after it, a }.
BraceSpanExists ==
    /\ IndexOf(Trim(RawContent), "{") # -1
    /\ LastIndexOf(Trim(RawContent), "}") # -1
    /\ IndexOf(Trim(RawContent), "{") < LastIndexOf(Trim(RawContent), "}")

\* The trimmed response from its first { to its last }, both included.
BraceSpan ==
    SubSeq(Trim(RawContent), IndexOf(Trim(RawContent), "{") + 1,
           LastIndexOf(Trim(RawContent), "}") + 1)

\* The parser gets the brace span (less its control characters, where the
\* variant removes them).
ParsesBraceSpan ==
    /\ ParserCalled
    /\ ParserArgument(variant, Sliced) = ParserArgument(variant, BraceSpan)
    /\ Head(ParserArgument(variant, Sliced)) = "{"
    /\ ParserArgument(variant, Sliced)[Len(ParserArgument(variant, Sliced))] = "}"

\* C29: cleanAIResponse parses the span from the first { to the last } of
\* the trimmed response; where there is no such span it does not parse and
\* throws the 'Failed to find JSON' error.
C29_ParsesOnlyBraceSpan ==
    (variant \in SanitizerVariants /\ cleaned.done) =>
        IF BraceSpanExists
        THEN ParsesBraceSpan
        ELSE ~cleaned.ok /\ cleaned.message = FindMessage

====
